---- MODULE Spec2Model ----
(***************************************************************************)
(* Business-Finder (src/app.py): the text-search pagination client, the    *)
(* website-presence predicate, the details client with its fixed retries,  *)
(* the enrichment loop and the run triggered by the "Search & Build File"  *)
(* button.                                                                 *)
(*                                                                         *)
(* Python strings are sequences of one-character strings, so that strip()  *)
(* and upper() are computed and not assumed.  A Python value that is       *)
(* either None (or an absent dict key read with .get) or a string is the   *)
(* record [isNone, s].                                                     *)
(***************************************************************************)
EXTENDS Integers, Sequences, FiniteSets, TLC

VARIABLES
    pc,               \* position of the script run
    max_pages,        \* sidebar: pages to fetch
    only_no_website,  \* sidebar: checkbox
    results,          \* fetch_businesses_v1: accumulated SearchResults
    pages_fetched,    \* fetch_businesses_v1: local counter
    page_token,       \* fetch_businesses_v1: token for the next request
    searchLog,        \* history: text-search requests of the current call
    places,           \* run: the list fetch_businesses_v1 returned
    places_no_site,   \* run: the list handed to enrich_with_details_v1
    enriched,         \* enrich_with_details_v1 / run: DetailedRecords
    idx,              \* enrich_with_details_v1: inputs processed so far
    d,                \* enrich_with_details_v1: last details result
    detailsLog,       \* history: details requests of the current call
    exhaustedAt,      \* history: positions whose lookup used up its retries
    detailsIssued,    \* history: a details request was issued in this run
    df,               \* run: rows handed to the export formatter
    out,              \* run: what dataframe_to_excel_bytes returned
    download,         \* run: the download button was rendered
    message,          \* run: the st.error / st.warning shown last
    hs_pc, hs_x, hs_r \* has_site called on its own: position, input, result

vars == <<pc, max_pages, only_no_website, results, pages_fetched, page_token,
          searchLog, places, places_no_site, enriched, idx, d, detailsLog,
          exhaustedAt, detailsIssued, df, out, download, message,
          hs_pc, hs_x, hs_r>>

runVars == <<pc, max_pages, only_no_website, results, pages_fetched, page_token,
             searchLog, places, places_no_site, enriched, idx, d, detailsLog,
             exhaustedAt, detailsIssued, df, out, download, message>>

hsVars == <<hs_pc, hs_x, hs_r>>

----------------------------------------------------------------------------
(* Bounds of the model *)

\* places one text search returns in total, over all its pages
MaxPlaces == 2

\* length of the strings has_site is called on when checked on its own
MaxLen == 4

----------------------------------------------------------------------------
(* Python values *)

None == [isNone |-> TRUE, s |-> <<>>]

Str(s) == [isNone |-> FALSE, s |-> s]

\* bool(v) for a value that is None or a string
Truthy(v) == ~v.isNone /\ v.s # <<>>

\* a or b
Or(a, b) == IF Truthy(a) THEN a ELSE b

NA == Str(<<"N", "/", "A">>)

Empty == Str(<<>>)

----------------------------------------------------------------------------
(* has_site *)

Whitespace == {" ", "\t"}

UpperOf(c) ==
    CASE c = "n" -> "N"
      [] c = "a" -> "A"
      [] c = "o" -> "O"
      [] c = "e" -> "E"
      [] c = "u" -> "U"
      [] c = "l" -> "L"
      [] c = "x" -> "X"
      [] c = "h" -> "H"
      [] OTHER -> c

Upper(s) == [k \in 1..Len(s) |-> UpperOf(s[k])]

RECURSIVE LStrip(_)
LStrip(s) ==
    IF s # <<>> /\ Head(s) \in Whitespace THEN LStrip(Tail(s)) ELSE s

RECURSIVE RStrip(_)
RStrip(s) ==
    IF s # <<>> /\ s[Len(s)] \in Whitespace
    THEN RStrip(SubSeq(s, 1, Len(s) - 1))
    ELSE s

Strip(s) == RStrip(LStrip(s))

Sentinels ==
    { <<"N", "/", "A">>, <<"N", "A">>, <<"N", "O", "N", "E">>,
      <<"N", "U", "L", "L">> }

\* has_site without upper()
has_site_noUpper(x) ==
    IF x.isNone THEN FALSE
    ELSE LET s == Strip(x.s)
         IN  IF s = <<>> THEN FALSE
             ELSE s \notin Sentinels

has_site(x) ==
    IF x.isNone THEN FALSE
    ELSE LET s == Strip(x.s)
         IN  IF s = <<>> THEN FALSE
             ELSE Upper(s) \notin Sentinels

----------------------------------------------------------------------------
(* What the two endpoints can answer *)

OkStatus == 200

ErrorStatuses == {500}

\* next-page tokens (None: the response has no nextPageToken)
Tokens == {None, Str(<<"A">>), Str(<<"B">>)}

\* websiteUri of a place summary (None: the field is absent)
SearchSites == {None, Str(<<" ", "n", "/", "a">>), Str(<<"h", ".", "x">>)}

\* websiteUri of a details body
DetailSites == {None, NA, Str(<<"h", ".", "x">>)}

NationalNumbers == {None, Empty, Str(<<"0", "1", "1">>)}

InternationalNumbers == {None, Str(<<"+", "2", "7">>)}

\* the pages a text search may answer with when n results are already held:
\* place identifiers are unique within one search
PagesAfter(n) ==
    UNION { [1..len -> SearchSites] : len \in 0..(MaxPlaces - n) }

RawPage(n, sites) ==
    [k \in 1..Len(sites) |-> [id |-> n + k, websiteUri |-> sites[k]]]

\* the bodies a details request for place_id may answer with
DetailBodies(place_id) ==
    [ nationalPhoneNumber : NationalNumbers,
      internationalPhoneNumber : InternationalNumbers,
      websiteUri : DetailSites,
      id : {place_id} ]

\* {} : every field absent (an absent id is 0, which no place has)
EmptyRecord ==
    [ nationalPhoneNumber |-> None, internationalPhoneNumber |-> None,
      websiteUri |-> None, id |-> 0 ]

----------------------------------------------------------------------------
(* fetch_businesses_v1 *)

MaxPagesChoices == {1, 2, 3}

ToSearchResult(p) ==
    [place_id |-> p.id, website |-> Or(p.websiteUri, Empty)]

PageResults(raw) == [k \in 1..Len(raw) |-> ToSearchResult(raw[k])]

\* the break without the page limit
LoopBreaks_noLimit(token, fetched, maxp) == ~Truthy(token)

\* if not page_token or pages_fetched >= max_pages: break
LoopBreaks(token, fetched, maxp) == ~Truthy(token) \/ fetched >= maxp

\* the script reaches the button with an API key: the search starts
RunBtn ==
    /\ pc = "idle"
    /\ \E mp \in MaxPagesChoices, only \in BOOLEAN :
          /\ max_pages' = mp
          /\ only_no_website' = only
    /\ results' = <<>>
    /\ pages_fetched' = 0
    /\ page_token' = None
    /\ searchLog' = <<>>
    /\ pc' = "fetch"
    /\ UNCHANGED <<places, places_no_site, enriched, idx, d, detailsLog,
                   exhaustedAt, detailsIssued, df, out, download, message>>
    /\ UNCHANGED hsVars

\* if not api_key: st.error(...); st.stop()
RunBtnNoKey ==
    /\ pc = "idle"
    /\ message' = "error: no api key"
    /\ pc' = "stopped"
    /\ UNCHANGED <<max_pages, only_no_website, results, pages_fetched,
                   page_token, searchLog, places, places_no_site, enriched,
                   idx, d, detailsLog, exhaustedAt, detailsIssued, df, out,
                   download>>
    /\ UNCHANGED hsVars

\* a non-200 response that is retried instead of ending the loop
TextSearchError_retry ==
    /\ pc = "fetch"
    /\ \E status \in ErrorStatuses :
          searchLog' = Append(searchLog,
              [token |-> page_token, status |-> status, places |-> <<>>,
               next |-> None])
    /\ message' = "error: text search"
    /\ pc' = "fetch"
    /\ UNCHANGED <<max_pages, only_no_website, results, pages_fetched,
                   page_token, places, places_no_site, enriched, idx, d,
                   detailsLog, exhaustedAt, detailsIssued, df, out, download>>
    /\ UNCHANGED hsVars

\* one iteration of the while loop whose response is not 200
TextSearchError ==
    /\ pc = "fetch"
    /\ \E status \in ErrorStatuses :
          searchLog' = Append(searchLog,
              [token |-> page_token, status |-> status, places |-> <<>>,
               next |-> None])
    /\ message' = "error: text search"
    /\ pc' = "fetched"
    /\ UNCHANGED <<max_pages, only_no_website, results, pages_fetched,
                   page_token, places, places_no_site, enriched, idx, d,
                   detailsLog, exhaustedAt, detailsIssued, df, out, download>>
    /\ UNCHANGED hsVars

\* one iteration of the while loop whose response is 200
TextSearchPage ==
    /\ pc = "fetch"
    /\ \E sites \in PagesAfter(Len(results)), next \in Tokens :
          LET page == PageResults(RawPage(Len(results), sites))
          IN  /\ searchLog' = Append(searchLog,
                     [token |-> page_token, status |-> OkStatus,
                      places |-> page, next |-> next])
              /\ results' = results \o page
              /\ page_token' = next
              /\ pages_fetched' = pages_fetched + 1
              /\ pc' = IF LoopBreaks(next, pages_fetched + 1, max_pages)
                       THEN "fetched" ELSE "fetch"
    /\ UNCHANGED <<max_pages, only_no_website, places, places_no_site,
                   enriched, idx, d, detailsLog, exhaustedAt, detailsIssued,
                   df, out, download, message>>
    /\ UNCHANGED hsVars

----------------------------------------------------------------------------
(* The run: pre-filter *)

\* no pre-filter at all
PreFilterList_none(ps, only) == ps

\* [p for p in places if not has_site(p.get("website"))], or places itself
PreFilterList(ps, only) ==
    LET NoSite(p) == ~has_site(p.website)
    IN  IF only THEN SelectSeq(ps, NoSite) ELSE ps

\* places = fetch_businesses_v1(...); the pre-filter; the empty-result check;
\* the call of enrich_with_details_v1 up to its loop
PreFilter ==
    /\ pc = "fetched"
    /\ places' = results
    /\ places_no_site' = PreFilterList(results, only_no_website)
    /\ results' = <<>>
    /\ pages_fetched' = 0
    /\ page_token' = None
    /\ searchLog' = <<>>
    /\ IF PreFilterList(results, only_no_website) = <<>>
       THEN /\ message' = "warning: no places"
            /\ pc' = "stopped"
       ELSE /\ message' = message
            /\ pc' = "enrich"
    /\ enriched' = <<>>
    /\ idx' = 0
    /\ UNCHANGED <<max_pages, only_no_website, d, detailsLog, exhaustedAt,
                   detailsIssued, df, out, download>>
    /\ UNCHANGED hsVars

----------------------------------------------------------------------------
(* get_detailed_info_v1 *)

retries == 3

\* one attempt too many
MayAttempt_offByOne(attempts) == attempts <= retries

\* for _ in range(retries): another attempt follows `attempts` failed ones
MayAttempt(attempts) == attempts < retries

\* the loop reaches the next input: get_detailed_info_v1 is called
DetailsCall ==
    /\ pc = "enrich"
    /\ idx < Len(places_no_site)
    /\ MayAttempt(0)
    /\ detailsLog' = <<>>
    /\ pc' = "details"
    /\ UNCHANGED <<max_pages, only_no_website, results, pages_fetched,
                   page_token, searchLog, places, places_no_site, enriched,
                   idx, d, exhaustedAt, detailsIssued, df, out, download,
                   message>>
    /\ UNCHANGED hsVars

\* an attempt answered 200: return r.json()
DetailsOk ==
    /\ pc = "details"
    /\ \E body \in DetailBodies(places_no_site[idx + 1].place_id) :
          /\ detailsLog' = Append(detailsLog,
                 [place_id |-> places_no_site[idx + 1].place_id,
                  status |-> OkStatus, body |-> body])
          /\ d' = body
    /\ detailsIssued' = TRUE
    /\ pc' = "detail_ret"
    /\ UNCHANGED <<max_pages, only_no_website, results, pages_fetched,
                   page_token, searchLog, places, places_no_site, enriched,
                   idx, exhaustedAt, df, out, download, message>>
    /\ UNCHANGED hsVars

\* an attempt answered something else: sleep, then the next attempt, or
\* return {} after the last one
DetailsFail ==
    /\ pc = "details"
    /\ \E status \in ErrorStatuses :
          detailsLog' = Append(detailsLog,
              [place_id |-> places_no_site[idx + 1].place_id,
               status |-> status, body |-> EmptyRecord])
    /\ detailsIssued' = TRUE
    /\ IF MayAttempt(Len(detailsLog) + 1)
       THEN /\ pc' = "details"
            /\ UNCHANGED <<d, exhaustedAt>>
       ELSE /\ pc' = "detail_ret"
            /\ d' = EmptyRecord
            /\ exhaustedAt' = exhaustedAt \cup {idx + 1}
    /\ UNCHANGED <<max_pages, only_no_website, results, pages_fetched,
                   page_token, searchLog, places, places_no_site, enriched,
                   idx, df, out, download, message>>
    /\ UNCHANGED hsVars

----------------------------------------------------------------------------
(* enrich_with_details_v1 *)

\* the international number preferred
PhoneOf_intlFirst(dd) ==
    Or(Or(dd.internationalPhoneNumber, dd.nationalPhoneNumber), NA)

\* phone = national or international or "N/A"
PhoneOf(dd) ==
    Or(Or(dd.nationalPhoneNumber, dd.internationalPhoneNumber), NA)

\* website = d.get("websiteUri") or b.get("website") or ""
WebsiteOf(dd, b) == Or(Or(dd.websiteUri, b.website), Empty)

\* the row appended for input b and details result dd
MakeRecord(dd, b) ==
    [ Phone_national |-> Or(dd.nationalPhoneNumber, Empty),
      Phone_intl |-> Or(dd.internationalPhoneNumber, Empty),
      Phone |-> PhoneOf(dd),
      Website |-> WebsiteOf(dd, b),
      Place_ID |-> IF dd.id = 0 THEN b.place_id ELSE dd.id ]

\* a loop body that skips the input whose details came back empty
EnrichAppend_skipEmpty ==
    /\ pc = "detail_ret"
    /\ enriched' = IF d = EmptyRecord THEN enriched
                   ELSE Append(enriched, MakeRecord(d, places_no_site[idx + 1]))
    /\ idx' = idx + 1
    /\ detailsLog' = <<>>
    /\ pc' = "enrich"
    /\ UNCHANGED <<max_pages, only_no_website, results, pages_fetched,
                   page_token, searchLog, places, places_no_site, d,
                   exhaustedAt, detailsIssued, df, out, download, message>>
    /\ UNCHANGED hsVars

\* the rest of the loop body after get_detailed_info_v1 returned
EnrichAppend ==
    /\ pc = "detail_ret"
    /\ enriched' = Append(enriched, MakeRecord(d, places_no_site[idx + 1]))
    /\ idx' = idx + 1
    /\ detailsLog' = <<>>
    /\ pc' = "enrich"
    /\ UNCHANGED <<max_pages, only_no_website, results, pages_fetched,
                   page_token, searchLog, places, places_no_site, d,
                   exhaustedAt, detailsIssued, df, out, download, message>>
    /\ UNCHANGED hsVars

\* the loop is over: progress.empty(); return enriched
EnrichReturn ==
    /\ pc = "enrich"
    /\ idx = Len(places_no_site)
    /\ pc' = "enriched"
    /\ UNCHANGED <<max_pages, only_no_website, results, pages_fetched,
                   page_token, searchLog, places, places_no_site, enriched,
                   idx, d, detailsLog, exhaustedAt, detailsIssued, df, out,
                   download, message>>
    /\ UNCHANGED hsVars

----------------------------------------------------------------------------
(* The run: post-filter and export *)

\* no post-filter at all
PostFilterList_none(rows, only) == rows

\* a post-filter that tests the literal "N/A" instead of has_site
PostFilterList_literal(rows, only) ==
    LET NotNA(row) == row.Website # NA
    IN  IF only THEN SelectSeq(rows, NotNA) ELSE rows

\* [row for row in enriched if not has_site(row.get("Website"))], if enabled
PostFilterList(rows, only) ==
    LET NoSite(row) == ~has_site(row.Website)
    IN  IF only THEN SelectSeq(rows, NoSite) ELSE rows

\* the safety filter, then df = pd.DataFrame(enriched) and its preview
PostFilter ==
    /\ pc = "enriched"
    /\ enriched' = PostFilterList(enriched, only_no_website)
    /\ df' = PostFilterList(enriched, only_no_website)
    /\ pc' = "filtered"
    /\ UNCHANGED <<max_pages, only_no_website, results, pages_fetched,
                   page_token, searchLog, places, places_no_site, idx, d,
                   detailsLog, exhaustedAt, detailsIssued, out, download,
                   message>>
    /\ UNCHANGED hsVars

\* dataframe_to_excel_bytes: openpyxl, else xlsxwriter, else CSV
ExportFormat(openpyxl, xlsxwriter) ==
    IF openpyxl \/ xlsxwriter THEN "business_list.xlsx"
    ELSE "business_list.csv"

\* out = dataframe_to_excel_bytes(df); st.download_button(...)
Export ==
    /\ pc = "filtered"
    /\ \E openpyxl \in BOOLEAN, xlsxwriter \in BOOLEAN :
          out' = ExportFormat(openpyxl, xlsxwriter)
    /\ download' = TRUE
    /\ pc' = "ready"
    /\ UNCHANGED <<max_pages, only_no_website, results, pages_fetched,
                   page_token, searchLog, places, places_no_site, enriched,
                   idx, d, detailsLog, exhaustedAt, detailsIssued, df,
                   message>>
    /\ UNCHANGED hsVars

\* the script run is over; the next rerun starts with nothing of this one
\* (only the map position survives in st.session_state)
Rerun ==
    /\ pc \in {"ready", "stopped"}
    /\ pc' = "idle"
    /\ max_pages' = 1
    /\ only_no_website' = TRUE
    /\ results' = <<>>
    /\ pages_fetched' = 0
    /\ page_token' = None
    /\ searchLog' = <<>>
    /\ places' = <<>>
    /\ places_no_site' = <<>>
    /\ enriched' = <<>>
    /\ idx' = 0
    /\ d' = EmptyRecord
    /\ detailsLog' = <<>>
    /\ exhaustedAt' = {}
    /\ detailsIssued' = FALSE
    /\ df' = <<>>
    /\ out' = "none"
    /\ download' = FALSE
    /\ message' = "none"
    /\ UNCHANGED hsVars

----------------------------------------------------------------------------
InitRun ==
    /\ pc = "idle"
    /\ max_pages = 1
    /\ only_no_website = TRUE
    /\ results = <<>>
    /\ pages_fetched = 0
    /\ page_token = None
    /\ searchLog = <<>>
    /\ places = <<>>
    /\ places_no_site = <<>>
    /\ enriched = <<>>
    /\ idx = 0
    /\ d = EmptyRecord
    /\ detailsLog = <<>>
    /\ exhaustedAt = {}
    /\ detailsIssued = FALSE
    /\ df = <<>>
    /\ out = "none"
    /\ download = FALSE
    /\ message = "none"

Init ==
    /\ InitRun
    /\ hs_pc = "off"
    /\ hs_x = None
    /\ hs_r = FALSE

Next ==
    \/ RunBtn
    \/ RunBtnNoKey
    \/ TextSearchError
    \/ TextSearchPage
    \/ PreFilter
    \/ DetailsCall
    \/ DetailsOk
    \/ DetailsFail
    \/ EnrichAppend
    \/ EnrichReturn
    \/ PostFilter
    \/ Export
    \/ Rerun

Spec == Init /\ [][Next]_vars

----------------------------------------------------------------------------
(* has_site on its own, over every short string *)

HsAlphabet == {" ", "\t", "n", "N", "a", "/", "o", "e", "u", "l", "x"}

HsInputs ==
    {None} \cup
    { Str(s) : s \in UNION { [1..n -> HsAlphabet] : n \in 0..MaxLen } }

InitHasSite ==
    /\ InitRun
    /\ hs_pc = "call"
    /\ hs_x \in HsInputs
    /\ hs_r = FALSE

HasSiteCall ==
    /\ hs_pc = "call"
    /\ hs_r' = has_site(hs_x)
    /\ hs_pc' = "ret"
    /\ UNCHANGED hs_x
    /\ UNCHANGED runVars

NextHasSite == HasSiteCall

SpecHasSite == InitHasSite /\ [][NextHasSite]_vars

----------------------------------------------------------------------------
(* Properties *)

Site == Str(<<"h", ".", "x">>)

\* the places of the first n logged text-search responses, in request order
RECURSIVE ConcatPlaces(_, _)
ConcatPlaces(log, n) ==
    IF n = 0 THEN <<>> ELSE ConcatPlaces(log, n - 1) \o log[n].places

AllOk(log) == \A j \in 1..Len(log) : log[j].status = 200

\* C1: when every text-search response is 200, fetch_businesses_v1 issues
\* min(max_pages, k) requests, k being the first page without a next-page
\* token: at most max_pages requests, a token on every page but the last,
\* and no token on the last page when fewer than max_pages were fetched;
\* the first request carries no token, each later one the token of the
\* response before it; the result is the pages' places in fetch order.
C1_Pagination ==
    (pc = "fetched" /\ AllOk(searchLog)) =>
        LET n == Len(searchLog)
        IN  /\ n >= 1
            /\ n <= max_pages
            /\ \A j \in 1..(n - 1) : searchLog[j].next \in {Str(<<"A">>), Str(<<"B">>)}
            /\ n < max_pages => searchLog[n].next = None
            /\ searchLog[1].token = None
            /\ \A j \in 2..n : searchLog[j].token = searchLog[j - 1].next
            /\ results = ConcatPlaces(searchLog, n)

\* tokens A, B, (none): three requests, three pages of results in order
C1_Witness ==
    /\ pc = "fetched"
    /\ Len(searchLog) = 3
    /\ AllOk(searchLog)
    /\ searchLog[1].next = Str(<<"A">>)
    /\ searchLog[2].next = Str(<<"B">>)
    /\ searchLog[3].next = None
    /\ Len(results) = 2
    /\ searchLog[1].places # <<>>
    /\ searchLog[3].places # <<>>

\* C2: the first non-200 text-search response is the last request of the
\* call, and the call returns the places of the 200 pages before it.
C2_AbortOnError ==
    pc \in {"fetch", "fetched"} =>
        \A j \in 1..Len(searchLog) :
            searchLog[j].status # 200 =>
                /\ j = Len(searchLog)
                /\ pc = "fetched"
                /\ results = ConcatPlaces(searchLog, j - 1)

\* a failure on the third page, after two pages that carried places
C2_Witness ==
    /\ pc = "fetched"
    /\ Len(searchLog) = 3
    /\ searchLog[3].status # 200
    /\ Len(results) = 2
    /\ searchLog[1].places # <<>>
    /\ searchLog[2].places # <<>>

\* C3: get_detailed_info_v1 issues at most 3 requests, all for the place it
\* was called for; every request before the last failed; it returns the body
\* of the first 200, and the empty record after 3 failures.
C3_DetailsRetries ==
    pc \in {"details", "detail_ret"} =>
        LET n == Len(detailsLog)
        IN  /\ n <= 3
            /\ \A j \in 1..n :
                  detailsLog[j].place_id = places_no_site[idx + 1].place_id
            /\ \A j \in 1..(n - 1) : detailsLog[j].status # 200
            /\ pc = "details" => n < 3 /\ (n > 0 => detailsLog[n].status # 200)
            /\ pc = "detail_ret" =>
                  /\ n >= 1
                  /\ IF detailsLog[n].status = 200
                     THEN d = detailsLog[n].body
                     ELSE n = 3 /\ d = EmptyRecord

\* three failed attempts, the empty record returned
C3_Witness ==
    /\ pc = "detail_ret"
    /\ Len(detailsLog) = 3
    /\ detailsLog[3].status # 200
    /\ d = EmptyRecord

\* C4 as stated: with "only no-website" enabled, no row of the final output
\* has the Website "N/A".
C4_Original ==
    (pc \in {"filtered", "ready"} /\ only_no_website) =>
        \A k \in 1..Len(df) : df[k].Website # NA

\* C4 as amended: with "only no-website" enabled, the post-enrichment filter
\* drops every record whose resolved Website is a real website (has_site is
\* true of it), also when its SearchResult passed the pre-filter, and keeps
\* the record whose resolved Website is "N/A".
C4_PostFilterDropsRealSites ==
    [][ (pc = "enriched" /\ only_no_website) =>
          \A k \in 1..Len(enriched) :
             /\ enriched[k].Website = Site =>
                   \A j \in 1..Len(df') : df'[j].Place_ID # enriched[k].Place_ID
             /\ enriched[k].Website = NA =>
                   \E j \in 1..Len(df') : df'[j] = enriched[k] ]_vars

\* a place without a website in the search, a website in its details: the
\* record is gone, while another with the Website "N/A" is in the output
C4_Witness ==
    /\ pc = "filtered"
    /\ only_no_website
    /\ Len(places_no_site) = 2
    /\ Len(df) = 1
    /\ df[1].Website = NA

\* C5: a run whose pre-enrichment filter leaves no places issues no details
\* request and formats no file; a run whose post-enrichment filter leaves no
\* records formats no file and offers no download.
C5_EmptyResultHalts ==
    /\ (pc = "stopped" /\ message = "warning: no places") =>
          (~detailsIssued /\ out = "none" /\ ~download)
    /\ (out # "none" \/ download) => df # <<>>

FromSearchResult(b) ==
    [ Phone_national |-> Str(<<>>), Phone_intl |-> Str(<<>>),
      Phone |-> Str(<<"N", "/", "A">>), Website |-> b.website,
      Place_ID |-> b.place_id ]

\* C7: enrich_with_details_v1 returns one record per input, in input order;
\* the input whose lookup used up its retries has the record built from its
\* SearchResult, at its position.
C7_OneRecordPerInput ==
    /\ pc \in {"enrich", "details", "detail_ret"} =>
          /\ Len(enriched) = idx
          /\ \A k \in 1..idx : enriched[k].Place_ID = places_no_site[k].place_id
    /\ pc = "enriched" =>
          /\ Len(enriched) = Len(places_no_site)
          /\ \A k \in 1..Len(places_no_site) :
                /\ enriched[k].Place_ID = places_no_site[k].place_id
                /\ k \in exhaustedAt =>
                      enriched[k] = FromSearchResult(places_no_site[k])

\* the first lookup used up its retries, the second input got its phone
C7_Witness ==
    /\ pc = "enriched"
    /\ Len(places_no_site) = 2
    /\ exhaustedAt = {1}
    /\ enriched[2].Phone = Str(<<"0", "1", "1">>)

\* C9: the Phone of the record just appended is the national number of the
\* details result when present and non-empty, else the international number
\* when present and non-empty, else "N/A".
C9_PhonePreference ==
    (pc = "enrich" /\ idx > 0) =>
        LET nat == d.nationalPhoneNumber
            intl == d.internationalPhoneNumber
            Present(v) == v # None /\ v # Str(<<>>)
        IN  enriched[idx].Phone =
               IF Present(nat) THEN nat
               ELSE IF Present(intl) THEN intl
               ELSE Str(<<"N", "/", "A">>)

\* both numbers in the details result: the national one is the Phone
C9_Witness ==
    /\ pc = "enrich"
    /\ idx > 0
    /\ d.nationalPhoneNumber = Str(<<"0", "1", "1">>)
    /\ d.internationalPhoneNumber = Str(<<"+", "2", "7">>)
    /\ enriched[idx].Phone = Str(<<"0", "1", "1">>)

\* C10: with "only no-website" enabled every row handed to the export
\* formatter has a Website has_site is false of; with it disabled the rows
\* are the enriched records, none removed.
C10_FinalRowsHaveNoSite ==
    [][ pc = "enriched" =>
          /\ only_no_website =>
                \A k \in 1..Len(df') :
                   /\ ~has_site(df'[k].Website)
                   /\ df'[k].Website # Site
          /\ ~only_no_website => df' = enriched ]_vars

\* the details supplied a website for one of two places the search had
\* none for: one row is left
C10_Witness ==
    /\ pc = "ready"
    /\ only_no_website
    /\ Len(places_no_site) = 2
    /\ Len(df) = 1
    /\ places_no_site[1].website = Str(<<>>)
    /\ df[1].Place_ID = 2

----------------------------------------------------------------------------
(* has_site: the property *)

AllWhitespace(s) == \A k \in 1..Len(s) : s[k] \in {" ", "\t"}

\* s without its leading and trailing whitespace, s not all whitespace
Core(s) ==
    LET first == CHOOSE i \in 1..Len(s) :
                    /\ s[i] \notin {" ", "\t"}
                    /\ \A k \in 1..(i - 1) : s[k] \in {" ", "\t"}
        last == CHOOSE i \in 1..Len(s) :
                    /\ s[i] \notin {" ", "\t"}
                    /\ \A k \in (i + 1)..Len(s) : s[k] \in {" ", "\t"}
    IN  SubSeq(s, first, last)

\* s is word in some casing
CasingOf(s, word) ==
    /\ Len(s) = Len(word)
    /\ \A k \in 1..Len(s) :
          \/ s[k] = word[k]
          \/ <<s[k], word[k]>> \in
                {<<"n", "N">>, <<"a", "A">>, <<"o", "O">>, <<"e", "E">>,
                 <<"u", "U">>, <<"l", "L">>}

\* C8: has_site is false of None, of the empty and the whitespace-only
\* string and of N/A, NA, NONE, NULL in any casing with any whitespace
\* around it; it is true of every other string.
C8_HasSite ==
    hs_pc = "ret" =>
        IF hs_x = None \/ AllWhitespace(hs_x.s)
        THEN hs_r = FALSE
        ELSE hs_r = ~(\E word \in { <<"N", "/", "A">>, <<"N", "A">>,
                                   <<"N", "O", "N", "E">>,
                                   <<"N", "U", "L", "L">> } :
                         CasingOf(Core(hs_x.s), word))

\* " n/a": lower case, leading whitespace
C8_Witness ==
    /\ hs_pc = "ret"
    /\ hs_x = Str(<<" ", "n", "/", "a">>)
    /\ hs_r = FALSE

====
